---- MODULE Spec2Model ----
(***************************************************************************)
(* A model of shaderUtils.py: the attribute update logic (updateShader,    *)
(* handleValue) and the shader creation / assignment helpers built on it   *)
(* (createShader, createOrUpdateShader, addToShader, addToOrCreateShader,  *)
(* getShadingGroup), run against a model of the host scene (maya.cmds).     *)
(*                                                                         *)
(* Every behaviour is one call issued by a script against a host scene.    *)
(* The scene the host holds when the call is made is drawn in Init; the    *)
(* call's arguments and the samples of the random source are drawn in the  *)
(* action.  An action is the whole call, every nested call included.       *)
(*                                                                         *)
(* Numbers are fixed-point: the float x is the integer x * RandRes, so a   *)
(* draw a + (b-a) * (k/RandRes) is exact.                                  *)
(***************************************************************************)
EXTENDS Integers, Sequences, FiniteSets, TLC

\* ------------------------------------------------------------------ bounds
MaxVal  == 2      \* literal numbers are 0.0 .. MaxVal.0
RandRes == 2      \* random() yields k/RandRes, k in 0 .. RandRes-1
MaxKeys == 3      \* most keys of an assignment mapping passed to updateShader

VARIABLES
    nodeType,   \* host scene: existing node name -> node type
    conn,       \* host scene: node -> plug -> list of connected nodes
    members,    \* host scene: shading group -> set of member nodes
    attrVal,    \* host scene: shader node -> attribute -> value tuple
    pc,         \* position of the calling script: "idle" before the call, "done" after
    op,         \* the function that was called
    argName,    \* its shaderName / shaderNode / shader argument
    argAttrs,   \* its shaderAttrValues argument (a dict, kept in key order)
    argNodes,   \* its nodes argument
    argValue,   \* handleValue's inValue argument
    retExc,     \* the exception that left the call, "none" if it returned
    retVal,     \* the value returned
    hostLog,    \* the host commands issued during the call, in order
    warnings,   \* the warnings logged during the call, in order
    draws       \* the samples taken from the random source during the call

vars == <<nodeType, conn, members, attrVal, pc, op, argName, argAttrs, argNodes,
          argValue, retExc, retVal, hostLog, warnings, draws>>

\* ------------------------------------------------------------------ values
\* A Python value passed as an attribute spec: a float, or a tuple / list of specs.
Num(x) == [ty |-> "float", v |-> x, e |-> <<>>]
Tup(es) == [ty |-> "tuple", v |-> 0, e |-> es]
Lst(es) == [ty |-> "list", v |-> 0, e |-> es]

Unit == RandRes
Vals == {x * Unit : x \in 0..MaxVal}

None == <<>>

\* The outcome of evaluating an expression: a value or an exception.
Ok(x) == [exc |-> "none", val |-> x]
Raise(name) == [exc |-> name, val |-> None]

\* Subscript with the fault of indexing from the end (inValue[-1-i])
Subscript_FromEnd(x, i) ==
    IF x.ty \notin {"tuple", "list"} THEN Raise("TypeError")
    ELSE IF i >= Len(x.e) THEN Raise("IndexError")
    ELSE Ok(x.e[Len(x.e) - i])

\* inValue[i] (Python, 0-based)
Subscript(x, i) ==
    IF x.ty \notin {"tuple", "list"} THEN Raise("TypeError")
    ELSE IF i >= Len(x.e) THEN Raise("IndexError")
    ELSE Ok(x.e[i + 1])

\* uniform with the fault of an offset added to the draw
uniform_Shifted(a, b, k) == a + ((b - a) * k) \div RandRes + 1

\* random.uniform(a, b) = a + (b-a) * random(), with random() = k/RandRes
uniform(a, b, k) == a + ((b - a) * k) \div RandRes

\* handleValue with the length checked: only a sequence of exactly two numbers
\* is drawn, everything else passes through
handleValue_PairOnly(inValue, k) ==
    IF inValue.ty \in {"tuple", "list"} /\ Len(inValue.e) = 2
           /\ inValue.e[1].ty = "float" /\ inValue.e[2].ty = "float"
    THEN [exc |-> "none", val |-> uniform(inValue.e[1].v, inValue.e[2].v, k), drew |-> 1]
    ELSE [exc |-> "none", val |-> inValue.v, drew |-> 0]

\* handleValue(inValue) with the next sample k of the random source:
\* [exc, val, drew], drew = 1 iff the sample was consumed
handleValue(inValue, k) ==
    IF inValue.ty \in {"tuple", "list"}
    THEN LET a == Subscript(inValue, 0)
             b == Subscript(inValue, 1)
         IN  IF a.exc # "none" THEN [exc |-> a.exc, val |-> 0, drew |-> 0]
             ELSE IF b.exc # "none" THEN [exc |-> b.exc, val |-> 0, drew |-> 0]
             ELSE IF a.val.ty # "float" \/ b.val.ty # "float"
                  THEN [exc |-> "TypeError", val |-> 0, drew |-> 0]
             ELSE [exc |-> "none", val |-> uniform(a.val.v, b.val.v, k), drew |-> 1]
    ELSE [exc |-> "none", val |-> inValue.v, drew |-> 0]

\* ------------------------------------------------------------------ updateShader
\* Attributes of a surface shader and the type mc.getAttr(..., type=1) reports.
Attrs == {"base", "baseColor", "thinWalled", "caching"}

getAttrType(attr) ==
    CASE attr = "base" -> "float"
      [] attr = "baseColor" -> "float3"
      [] attr = "thinWalled" -> "bool"
      [] attr = "caching" -> "bool"

\* sample i of the random stream rnd
Sample(rnd, i) == IF i <= Len(rnd) THEN rnd[i] ELSE 0

\* Keys with the fault of walking every attribute of the node
Keys_EveryAttr(d) == <<"base", "baseColor", "thinWalled", "caching">>

\* shaderAttrValues.keys() and shaderAttrValues.get(inAttr, default)
Keys(d) == [i \in 1..Len(d) |-> d[i][1]]
Get(d, key, default) ==
    IF \E j \in 1..Len(d) : d[j][1] = key
    THEN d[CHOOSE j \in 1..Len(d) : d[j][1] = key][2]
    ELSE default

\* Components with the spec itself resolved three times, as one range shared by
\* the three components
RECURSIVE Components_OneRange(_, _, _, _, _)
Components_OneRange(values, i, rnd, used, acc) ==
    IF i > 2 THEN [exc |-> "none", val |-> acc, used |-> used]
    ELSE LET h == handleValue(values, Sample(rnd, used + 1))
         IN  IF h.exc # "none"
             THEN [exc |-> h.exc, val |-> acc, used |-> used]
             ELSE Components_OneRange(values, i + 1, rnd, used + h.drew, Append(acc, h.val))

\* The three arguments handleValue(values[0]), handleValue(values[1]),
\* handleValue(values[2]) of the float3 setAttr, evaluated left to right from
\* component i on; acc holds the components resolved so far.
RECURSIVE Components(_, _, _, _, _)
Components(values, i, rnd, used, acc) ==
    IF i > 2 THEN [exc |-> "none", val |-> acc, used |-> used]
    ELSE LET c == Subscript(values, i)
         IN  IF c.exc # "none" THEN [exc |-> c.exc, val |-> acc, used |-> used]
             ELSE LET h == handleValue(c.val, Sample(rnd, used + 1))
                  IN  IF h.exc # "none"
                      THEN [exc |-> h.exc, val |-> acc, used |-> used]
                      ELSE Components(values, i + 1, rnd, used + h.drew,
                                      Append(acc, h.val))

GetAttrCmd(node, attr) == [cmd |-> "getAttr", node |-> node, attr |-> attr, val |-> <<>>]
SetAttrCmd(node, attr, val) == [cmd |-> "setAttr", node |-> node, attr |-> attr, val |-> val]

\* LoopBody with the fault of raising on an unsupported type
LoopBody_RaiseUnsupported(shaderNode, shaderAttrValues, inAttr, rnd, st) ==
    LET attrType == getAttrType(inAttr)
        queried == [st EXCEPT !.log = Append(@, GetAttrCmd(shaderNode, inAttr))]
    IN  IF attrType = "float3"
        THEN LET r == Components(Get(shaderAttrValues, inAttr, Tup(<<Num(0), Num(0), Num(0)>>)),
                                  0, rnd, st.used, <<>>)
             IN  IF r.exc # "none"
                 THEN [queried EXCEPT !.exc = r.exc, !.used = r.used]
                 ELSE [queried EXCEPT
                          !.log = Append(@, SetAttrCmd(shaderNode, inAttr, r.val)),
                          !.attrs = [@ EXCEPT ![inAttr] = r.val],
                          !.used = r.used]
        ELSE IF attrType = "float"
        THEN LET h == handleValue(Get(shaderAttrValues, inAttr, Num(0)),
                                   Sample(rnd, st.used + 1))
             IN  IF h.exc # "none"
                 THEN [queried EXCEPT !.exc = h.exc]
                 ELSE [queried EXCEPT
                          !.log = Append(@, SetAttrCmd(shaderNode, inAttr, <<h.val>>)),
                          !.attrs = [@ EXCEPT ![inAttr] = <<h.val>>],
                          !.used = st.used + h.drew]
        ELSE [queried EXCEPT !.warn = Append(@, <<inAttr, attrType>>), !.exc = "ValueError"]

\* One pass of the loop body (lines 82-95) for key inAttr, from loop state st =
\* [attrs, log, warn, used, exc].
LoopBody(shaderNode, shaderAttrValues, inAttr, rnd, st) ==
    LET attrType == getAttrType(inAttr)
        queried == [st EXCEPT !.log = Append(@, GetAttrCmd(shaderNode, inAttr))]
    IN  IF attrType = "float3"
        THEN LET r == Components(Get(shaderAttrValues, inAttr, Tup(<<Num(0), Num(0), Num(0)>>)),
                                  0, rnd, st.used, <<>>)
             IN  IF r.exc # "none"
                 THEN [queried EXCEPT !.exc = r.exc, !.used = r.used]
                 ELSE [queried EXCEPT
                          !.log = Append(@, SetAttrCmd(shaderNode, inAttr, r.val)),
                          !.attrs = [@ EXCEPT ![inAttr] = r.val],
                          !.used = r.used]
        ELSE IF attrType = "float"
        THEN LET h == handleValue(Get(shaderAttrValues, inAttr, Num(0)),
                                   Sample(rnd, st.used + 1))
             IN  IF h.exc # "none"
                 THEN [queried EXCEPT !.exc = h.exc]
                 ELSE [queried EXCEPT
                          !.log = Append(@, SetAttrCmd(shaderNode, inAttr, <<h.val>>)),
                          !.attrs = [@ EXCEPT ![inAttr] = <<h.val>>],
                          !.used = st.used + h.drew]
        ELSE [queried EXCEPT !.warn = Append(@, <<inAttr, attrType>>)]

\* Loop with the fault of leaving the loop after the first warning
RECURSIVE Loop_BreakOnWarning(_, _, _, _, _)
Loop_BreakOnWarning(shaderNode, shaderAttrValues, inAttrs, rnd, st) ==
    IF inAttrs = <<>> \/ st.exc # "none" \/ st.warn # <<>> THEN st
    ELSE Loop_BreakOnWarning(shaderNode, shaderAttrValues, Tail(inAttrs), rnd,
                             LoopBody(shaderNode, shaderAttrValues, Head(inAttrs), rnd, st))

\* for inAttr in inAttrs: ... ; an exception leaves the loop
RECURSIVE Loop(_, _, _, _, _)
Loop(shaderNode, shaderAttrValues, inAttrs, rnd, st) ==
    IF inAttrs = <<>> \/ st.exc # "none" THEN st
    ELSE Loop(shaderNode, shaderAttrValues, Tail(inAttrs), rnd,
              LoopBody(shaderNode, shaderAttrValues, Head(inAttrs), rnd, st))

\* updateShader(shaderNode, shaderAttrValues) on a node whose attributes hold
\* attrs, the loop state st0 carrying what the caller already did.
updateShader(shaderNode, shaderAttrValues, rnd, st0) ==
    Loop(shaderNode, shaderAttrValues, Keys(shaderAttrValues), rnd, st0)

\* ------------------------------------------------------------------ host scene
\* Node names are strings, kept as tuples of characters (the code slices them).
M1 == <<"m", "1">>
M2 == <<"m", "2">>
P1 == <<"p", "1">>
P2 == <<"p", "2">>
LYR == <<"l", "y", "r">>
ShaderNames == {M1, M2}

Digits == <<"0", "1", "2", "3", "4", "5", "6", "7", "8", "9">>
IsDigit(c) == \E i \in 1..10 : Digits[i] = c
DigitOf(c) == (CHOOSE i \in 1..10 : Digits[i] = c) - 1

\* The host's name-conflict rule: a name already in use has its trailing number
\* incremented (or a 1 appended) until it is free.
RECURSIVE UniqueName(_, _)
UniqueName(name, used) ==
    IF name \notin used THEN name
    ELSE LET last == name[Len(name)]
         IN  IF IsDigit(last) /\ DigitOf(last) < 9
             THEN UniqueName([name EXCEPT ![Len(name)] = Digits[DigitOf(last) + 2]], used)
             ELSE UniqueName(Append(name, "1"), used)

\* Attribute values of a freshly created surface shader.
DefaultAttrs ==
    [a \in Attrs |-> IF a = "baseColor" THEN <<Unit, Unit, Unit>>
                     ELSE IF a = "base" THEN <<Unit>> ELSE <<0>>]

\* mc.objExists(name), mc.objExists(name + "." + plug), mc.listConnections(plug)
objExists(cs, name) == name \in DOMAIN cs.nodeType
plugExists(cs, name, plug) == objExists(cs, name) /\ plug \in DOMAIN cs.conn[name]
listConnections(cs, name, plug) == cs.conn[name][plug]

ShaderPlugs == [outColor |-> <<>>, message |-> <<>>]
OtherPlugs == [message |-> <<>>]

HostCmd(cmd, node, val) == [cmd |-> cmd, node |-> node, attr |-> "", val |-> val]

\* The state a call runs on and leaves behind: the scene, the commands issued,
\* the warnings logged, the samples used and the exception raised.
CallState ==
    [nodeType |-> nodeType, conn |-> conn, members |-> members, attrVal |-> attrVal,
     log |-> <<>>, warn |-> <<>>, used |-> 0, exc |-> "none"]

\* the element of a one-element set; The({F(v) : v \in {x}}) is F applied to
\* the value of x
The(S) == CHOOSE y \in S : TRUE

\* what a function hands back from call state cs: val if nothing was raised
Returned(cs, val) == [cs |-> cs, val |-> IF cs.exc = "none" THEN val ELSE None]

\* updateShader run on call state cs
UpdateIn(cs, shaderNode, shaderAttrValues, rnd) ==
    The({ [cs EXCEPT !.attrVal = [@ EXCEPT ![shaderNode] = r.attrs],
                     !.log = r.log, !.warn = r.warn, !.used = r.used, !.exc = r.exc] :
          r \in {updateShader(shaderNode, shaderAttrValues, rnd,
                              [attrs |-> cs.attrVal[shaderNode], log |-> cs.log,
                               warn |-> cs.warn, used |-> cs.used, exc |-> cs.exc])} })

\* ------------------------------------------------------------------ createShader
\* the scene after lines 58-60: the shader, its shading group and their connection
Made(cs, shaderNode, shadingGroupNode, shaderType) ==
    [cs EXCEPT
       !.nodeType = @ @@ (shaderNode :> shaderType)
                      @@ (shadingGroupNode :> "shadingEngine"),
       !.conn = @ @@ (shaderNode :> [ShaderPlugs EXCEPT !.outColor = <<shadingGroupNode>>])
                  @@ (shadingGroupNode :> OtherPlugs),
       !.members = @ @@ (shadingGroupNode :> {}),
       !.attrVal = @ @@ (shaderNode :> DefaultAttrs),
       !.log = @ \o << HostCmd("shadingNode", shaderNode, <<>>),
                       HostCmd("sets", shadingGroupNode, <<>>),
                       HostCmd("connectAttr", shaderNode, <<shadingGroupNode>>) >>]

\* createShader(shaderName, shaderAttrValues, shaderType): [cs, val]
createShader(cs, shaderName, shaderAttrValues, shaderType, rnd) ==
    The({ The({ Returned(UpdateIn(Made(cs, shaderNode, shadingGroupNode, shaderType),
                                  shaderNode, shaderAttrValues, rnd),
                         <<shaderNode, shadingGroupNode>>) :
                shadingGroupNode \in {UniqueName(shaderNode \o <<"S", "G">>,
                                                 DOMAIN cs.nodeType \cup {shaderNode})} }) :
          shaderNode \in {UniqueName(shaderName, DOMAIN cs.nodeType)} })

\* ------------------------------------------------------------------ getShadingGroup
Last2(name) == IF Len(name) < 2 THEN name ELSE SubSeq(name, Len(name) - 1, Len(name))

\* for sg in c: if sg[-2:] != "SE": break  -- the value sg holds after the loop
RECURSIVE AfterLoop(_)
AfterLoop(c) ==
    IF Len(c) = 1 \/ Last2(Head(c)) # <<"S", "E">> THEN Head(c) ELSE AfterLoop(Tail(c))

\* getShadingGroup(shader): [exc, val]
getShadingGroup(cs, shader) ==
    LET plug == IF plugExists(cs, shader, "outColor") THEN "outColor"
                ELSE IF plugExists(cs, shader, "outValue") THEN "outValue"
                ELSE IF plugExists(cs, shader, "message") THEN "message"
                ELSE "unbound"
    IN  IF plug = "unbound" THEN Raise("UnboundLocalError")
        ELSE IF listConnections(cs, shader, plug) = <<>>
             THEN Raise("TypeError")    \* listConnections gave None
             ELSE Ok(AfterLoop(listConnections(cs, shader, plug)))

\* ------------------------------------------------------------------ addToShader
Range(seq) == {seq[i] : i \in 1..Len(seq)}

\* mc.sets(nodes, e=1, fe=shadingGroup): nodes join the set and leave every other
\* shading group; the host refuses a target that is not a set.
setsForceElement(cs, nodes, shadingGroup) ==
    IF shadingGroup \notin DOMAIN cs.members
    THEN [cs EXCEPT !.exc = "RuntimeError"]
    ELSE [cs EXCEPT
            !.members = [g \in DOMAIN @ |->
                           IF g = shadingGroup THEN @[g] \cup Range(nodes)
                           ELSE @[g] \ Range(nodes)],
            !.log = Append(@, HostCmd("setsForceElement", shadingGroup, nodes))]

\* addToShader(shaderName, nodes): [cs, val], val = <<TRUE>> or <<FALSE>>
addToShader(cs, shaderName, nodes) ==
    IF ~objExists(cs, shaderName) THEN [cs |-> cs, val |-> <<FALSE>>]
    ELSE The({ IF g.exc # "none" THEN [cs |-> [cs EXCEPT !.exc = g.exc], val |-> None]
               ELSE IF g.val = None
               THEN [cs |-> [cs EXCEPT !.warn = Append(@, <<shaderName, "no shadingGroup">>)],
                     val |-> <<FALSE>>]
               ELSE IF objExists(cs, g.val)
               THEN Returned(setsForceElement(cs, nodes, g.val), <<TRUE>>)
               ELSE [cs |-> cs, val |-> <<TRUE>>] :
               g \in {IF cs.nodeType[shaderName] # "shadingEngine"
                      THEN getShadingGroup(cs, shaderName)
                      ELSE Ok(shaderName)} })

\* ------------------------------------------------------------------ addToOrCreateShader
\* the if-branch of addToOrCreateShader (lines 136-137), then line 139
CreateThenAdd(cs, shaderName, nodes, shaderAttrValues, rnd) ==
    The({ IF made.cs.exc # "none" THEN made
          ELSE The({ IF second.cs.exc # "none" THEN second
                     ELSE Returned(UpdateIn(second.cs, made.val[1], shaderAttrValues, rnd),
                                   made.val[1]) :
                     second \in {addToShader(made.cs, made.val[1], nodes)} }) :
          made \in {createShader(cs, shaderName, shaderAttrValues, "standardSurface", rnd)} })

\* addToOrCreateShader(shaderName, nodes, shaderAttrValues): [cs, val]
addToOrCreateShader(cs, shaderName, nodes, shaderAttrValues, rnd) ==
    The({ IF first.cs.exc # "none" THEN first
          ELSE IF first.val = <<FALSE>>
          THEN CreateThenAdd(first.cs, shaderName, nodes, shaderAttrValues, rnd)
          ELSE Returned(UpdateIn(first.cs, shaderName, shaderAttrValues, rnd), shaderName) :
          first \in {addToShader(cs, shaderName, nodes)} })

\* ------------------------------------------------------------------ createOrUpdateShader
\* createOrUpdateShader(shaderName, shaderAttrValues, shaderType): [cs, val].
\* The else branch calls updateShader(shaderName=...), a keyword updateShader
\* does not have, so the call raises TypeError before updateShader runs.
createOrUpdateShader(cs, shaderName, shaderAttrValues, shaderType, rnd) ==
    IF ~objExists(cs, shaderName)
    THEN createShader(cs, shaderName, shaderAttrValues, shaderType, rnd)
    ELSE [cs |-> [cs EXCEPT !.exc = "TypeError"], val |-> None]

\* ------------------------------------------------------------------ inputs
Scalars == {Num(x) : x \in Vals}
Ranges == {Tup(<<Num(a), Num(b)>>) : a, b \in Vals}
ListRanges == {Lst(<<Num(a), Num(b)>>) : a, b \in Vals}
Shorts == {Tup(<<>>), Lst(<<>>)} \cup {Tup(<<x>>) : x \in Scalars}
Triples == {Tup(<<Num(a), Num(b), Num(c)>>) : a, b, c \in Vals}
RangeTriples == {Tup(<<r, r, r>>) : r \in Ranges}

\* the values handed to handleValue
HandleValueInputs ==
    Scalars \cup Ranges \cup ListRanges \cup Shorts \cup Triples \cup RangeTriples

Top == MaxVal * Unit
FullRange == Tup(<<Num(0), Num(Top)>>)

\* the specs used as the values of an assignment mapping
AssignSpecs ==
    { Num(Unit), FullRange, Tup(<<Num(0), Num(Unit), Num(Top)>>),
      Tup(<<FullRange, FullRange, FullRange>>), Tup(<<Num(0)>>),
      Lst(<<Num(Unit), Num(Unit), Num(Unit)>>) }

\* the dicts of k keys, each an ordered tuple of <<key, spec>> items
Assignments(k) ==
    { [i \in 1..k |-> <<ks[i], sp[i]>>] :
        ks \in {f \in [1..k -> Attrs] : \A i, j \in 1..k : f[i] = f[j] => i = j},
        sp \in [1..k -> AssignSpecs] }

\* the streams of n samples of random(): each sample is k/RandRes, 0 <= k < RandRes
Streams(n) == [1..n -> 0..(RandRes - 1)]

NodeLists == {<<P1>>, <<P1, P2>>}
ShaderTypes == {"standardSurface", "aiStandardSurface"}

\* ------------------------------------------------------------------ scenes
Statuses == {"absent", "stale", "assigned", "orphan", "layered", "layeredFirst", "namedSE"}

SG(n) == n \o <<"S", "G">>
SE(n) == n \o <<"S", "E">>

HasShader(stat, n) == stat[n] \notin {"absent", "stale"}
GroupsOf(stat) ==
    {SG(n) : n \in {x \in ShaderNames : stat[x] \in {"stale", "assigned", "layeredFirst"}}}
    \cup {SE(n) : n \in {x \in ShaderNames : stat[x] = "namedSE"}}
ShadersOf(stat) == {n \in ShaderNames : HasShader(stat, n)}
HasLayer(stat) == \E n \in ShaderNames : stat[n] \in {"layered", "layeredFirst"}

OutColorOf(stat, n) ==
    CASE stat[n] = "assigned" -> <<SG(n)>>
      [] stat[n] = "orphan" -> <<>>
      [] stat[n] = "layered" -> <<LYR>>
      [] stat[n] = "layeredFirst" -> <<LYR, SG(n)>>
      [] stat[n] = "namedSE" -> <<SE(n)>>

SceneNodes(stat) ==
    {P1, P2} \cup ShadersOf(stat) \cup GroupsOf(stat)
    \cup (IF HasLayer(stat) THEN {LYR} ELSE {})

\* The scene in which each shader name has the given status.
Scene(stat) ==
    [nodeType |->
        [n \in SceneNodes(stat) |->
            IF n \in ShadersOf(stat) THEN "standardSurface"
            ELSE IF n \in GroupsOf(stat) THEN "shadingEngine"
            ELSE IF n = LYR THEN "layeredShader" ELSE "mesh"],
     conn |->
        [n \in SceneNodes(stat) |->
            IF n \in ShadersOf(stat) THEN [ShaderPlugs EXCEPT !.outColor = OutColorOf(stat, n)]
            ELSE IF n = LYR THEN ShaderPlugs ELSE OtherPlugs],
     members |-> [g \in GroupsOf(stat) |-> IF g = SG(M2) THEN {P1} ELSE {}],
     attrVal |-> [n \in ShadersOf(stat) |-> DefaultAttrs]]

InitCall ==
    /\ pc = "idle"
    /\ op = "none"
    /\ argName = None
    /\ argAttrs = <<>>
    /\ argNodes = <<>>
    /\ argValue = Num(0)
    /\ retExc = "none"
    /\ retVal = None
    /\ hostLog = <<>>
    /\ warnings = <<>>
    /\ draws = <<>>

InitScene(stat) ==
    /\ nodeType = Scene(stat).nodeType
    /\ conn = Scene(stat).conn
    /\ members = Scene(stat).members
    /\ attrVal = Scene(stat).attrVal

\* the call returned (or raised): the scene and what was observed of the call
Return(name, r, rnd) ==
    /\ pc' = "done"
    /\ op' = name
    /\ nodeType' = r.cs.nodeType
    /\ conn' = r.cs.conn
    /\ members' = r.cs.members
    /\ attrVal' = r.cs.attrVal
    /\ hostLog' = r.cs.log
    /\ warnings' = r.cs.warn
    /\ draws' = SubSeq(rnd, 1, r.cs.used)
    /\ retExc' = r.cs.exc
    /\ retVal' = r.val

\* ------------------------------------------------------------------ calls
HandleValueCall ==
    /\ pc = "idle"
    /\ \E inValue \in HandleValueInputs, k \in 0..(RandRes - 1) :
         \E h \in {handleValue(inValue, k)} :
           /\ argValue' = inValue
           /\ Return("handleValue",
                     Returned([CallState EXCEPT !.exc = h.exc, !.used = h.drew], <<h.val>>),
                     <<k>>)
           /\ UNCHANGED <<argName, argAttrs, argNodes>>

UpdateShaderCall ==
    /\ pc = "idle"
    /\ \E shaderNode \in DOMAIN attrVal, k \in 0..MaxKeys :
         \E shaderAttrValues \in Assignments(k) :
           \E rnd \in Streams(UpdateIn(CallState, shaderNode, shaderAttrValues, <<>>).used) :
             \E cs \in {UpdateIn(CallState, shaderNode, shaderAttrValues, rnd)} :
               /\ argName' = shaderNode
               /\ argAttrs' = shaderAttrValues
               /\ Return("updateShader", [cs |-> cs, val |-> None], rnd)
               /\ UNCHANGED <<argNodes, argValue>>

\* the mappings passed to the calls that create or assign shaders
SceneAssignments == Assignments(0) \cup Assignments(1)

CreateShaderCall ==
    /\ pc = "idle"
    /\ \E shaderName \in ShaderNames, shaderAttrValues \in SceneAssignments,
          shaderType \in ShaderTypes :
         \E rnd \in Streams(createShader(CallState, shaderName, shaderAttrValues,
                                         shaderType, <<>>).cs.used) :
           \E r \in {createShader(CallState, shaderName, shaderAttrValues, shaderType, rnd)} :
             /\ argName' = shaderName
             /\ argAttrs' = shaderAttrValues
             /\ Return("createShader", r, rnd)
             /\ UNCHANGED <<argNodes, argValue>>

CreateOrUpdateShaderCall ==
    /\ pc = "idle"
    /\ \E shaderName \in ShaderNames, shaderAttrValues \in SceneAssignments,
          shaderType \in ShaderTypes :
         \E rnd \in Streams(createOrUpdateShader(CallState, shaderName, shaderAttrValues,
                                                 shaderType, <<>>).cs.used) :
           \E r \in {createOrUpdateShader(CallState, shaderName, shaderAttrValues,
                                          shaderType, rnd)} :
             /\ argName' = shaderName
             /\ argAttrs' = shaderAttrValues
             /\ Return("createOrUpdateShader", r, rnd)
             /\ UNCHANGED <<argNodes, argValue>>

AddToShaderCall ==
    /\ pc = "idle"
    /\ \E shaderName \in ShaderNames \cup DOMAIN nodeType, nodes \in NodeLists :
         \E r \in {addToShader(CallState, shaderName, nodes)} :
           /\ argName' = shaderName
           /\ argNodes' = nodes
           /\ Return("addToShader", r, <<>>)
           /\ UNCHANGED <<argAttrs, argValue>>

AddToOrCreateShaderCall ==
    /\ pc = "idle"
    /\ \E shaderName \in ShaderNames, nodes \in NodeLists,
          shaderAttrValues \in SceneAssignments :
         \E rnd \in Streams(addToOrCreateShader(CallState, shaderName, nodes,
                                                shaderAttrValues, <<>>).cs.used) :
           \E r \in {addToOrCreateShader(CallState, shaderName, nodes,
                                         shaderAttrValues, rnd)} :
             /\ argName' = shaderName
             /\ argNodes' = nodes
             /\ argAttrs' = shaderAttrValues
             /\ Return("addToOrCreateShader", r, rnd)
             /\ UNCHANGED argValue

GetShadingGroupCall ==
    /\ pc = "idle"
    /\ \E shader \in ShaderNames \cup DOMAIN nodeType :
         \E g \in {getShadingGroup(CallState, shader)} :
           /\ argName' = shader
           /\ Return("getShadingGroup",
                     [cs |-> [CallState EXCEPT !.exc = g.exc], val |-> g.val], <<>>)
           /\ UNCHANGED <<argAttrs, argNodes, argValue>>

\* ------------------------------------------------------------------ specifications
\* The attribute update logic, on a scene holding one assigned shader.
Init ==
    /\ InitCall
    /\ InitScene([n \in ShaderNames |-> IF n = M1 THEN "assigned" ELSE "absent"])

Next ==
    \/ HandleValueCall
    \/ UpdateShaderCall

Spec == Init /\ [][Next]_vars

\* The shader creation and assignment helpers, on every scene.
InitAnyScene ==
    /\ InitCall
    /\ \E stat \in [ShaderNames -> Statuses] : InitScene(stat)

NextScene ==
    \/ CreateShaderCall
    \/ CreateOrUpdateShaderCall
    \/ AddToShaderCall
    \/ AddToOrCreateShaderCall
    \/ GetShadingGroupCall

SpecScene == InitAnyScene /\ [][NextScene]_vars

\* ------------------------------------------------------------------ vocabulary of the properties
IsSeqSpec(s) == s.ty \in {"tuple", "list"}
IsNumber(s) == s.ty = "float"
\* an ordered pair of two numbers (low, high)
IsRange(s) == IsSeqSpec(s) /\ Len(s.e) = 2 /\ IsNumber(s.e[1]) /\ IsNumber(s.e[2])
\* three components, each a number or a range
IsVector(s) ==
    IsSeqSpec(s) /\ Len(s.e) = 3 /\ \A i \in 1..3 : IsNumber(s.e[i]) \/ IsRange(s.e[i])
\* three numbers (a, b, c)
IsScalarTriple(s) == IsSeqSpec(s) /\ Len(s.e) = 3 /\ \A i \in 1..3 : IsNumber(s.e[i])
\* three times the same range
IsRangeTriple(s) ==
    IsSeqSpec(s) /\ Len(s.e) = 3 /\ IsRange(s.e[1]) /\ s.e[2] = s.e[1] /\ s.e[3] = s.e[1]

Supported(attr) == getAttrType(attr) \in {"float", "float3"}

\* the item's spec has the shape the branch of its attribute type reads
Shaped(item) ==
    CASE getAttrType(item[1]) = "float" -> IsNumber(item[2]) \/ IsRange(item[2])
      [] getAttrType(item[1]) = "float3" -> IsVector(item[2])
      [] OTHER -> TRUE

\* a spec that asks for no draw: a number, or a triple of numbers
IsLiteral(s) == IsNumber(s) \/ IsScalarTriple(s)
\* a literal of the attribute's own shape
ShapedLiteral(item) ==
    CASE getAttrType(item[1]) = "float" -> IsNumber(item[2])
      [] getAttrType(item[1]) = "float3" -> IsScalarTriple(item[2])
      [] OTHER -> IsLiteral(item[2])

WritesTo(log, attr) == SelectSeq(log, LAMBDA c : c.cmd = "setAttr" /\ c.attr = attr)
Writes(log) == SelectSeq(log, LAMBDA c : c.cmd = "setAttr")
Queries(log) == SelectSeq(log, LAMBDA c : c.cmd = "getAttr")
WarningsOf(w, attr) == SelectSeq(w, LAMBDA x : x[1] = attr)
Created(log) == SelectSeq(log, LAMBDA c : c.cmd = "shadingNode")

Updated == pc = "done" /\ op = "updateShader"
Items == 1..Len(argAttrs)
\* the loop reached item i (its type was queried)
Reached(i) == Len(Queries(hostLog)) >= i
InRange(x, r) == r.e[1].v <= x /\ x <= r.e[2].v

C2_Outcome ==
    /\ retExc = "none"
    /\ \A i \in Items :
         /\ Supported(argAttrs[i][1]) => Len(WritesTo(hostLog, argAttrs[i][1])) = 1
         /\ ~Supported(argAttrs[i][1])
            => /\ Len(WritesTo(hostLog, argAttrs[i][1])) = 0
               /\ Len(WarningsOf(warnings, argAttrs[i][1])) = 1
    /\ Len(warnings) = Cardinality({i \in Items : ~Supported(argAttrs[i][1])})
    /\ Len(Writes(hostLog)) = Cardinality({i \in Items : Supported(argAttrs[i][1])})

\* a value specification of an assignment request: a number or a range (low, high)
IsValueSpec(s) == IsNumber(s) \/ IsRange(s)

C2_AsStated == Updated /\ (\A i \in Items : IsValueSpec(argAttrs[i][2])) => C2_Outcome

\* C2 amended: for every assignment mapping whose float keys carry a number or a
\* range and whose float3 keys carry a triple of numbers or ranges, wherever its
\* unsupported keys stand, updateShader writes every float and float3 key once,
\* writes no other key, logs one warning per unsupported key and raises nothing.
C2_UnsupportedSkipped ==
    Updated /\ (\A i \in Items : Shaped(argAttrs[i])) => C2_Outcome

\* an unsupported key stood first, two supported keys after it were written
C2_Witness ==
    /\ Updated /\ Len(argAttrs) = 3 /\ retExc = "none"
    /\ ~Supported(argAttrs[1][1])
    /\ Supported(argAttrs[2][1]) /\ Supported(argAttrs[3][1])
    /\ Len(warnings) = 1 /\ Len(Writes(hostLog)) = 2

\* ------------------------------------------------------------------ C3
Handled == pc = "done" /\ op = "handleValue"

\* C3 as stated: handleValue draws only for a sequence of exactly two elements;
\* every other input is returned unchanged, without a draw (and so without an
\* exception).
C3_AsStated ==
    Handled /\ ~(IsSeqSpec(argValue) /\ Len(argValue.e) = 2)
    => /\ retExc = "none"
       /\ draws = <<>>
       /\ IsNumber(argValue) => retVal = <<argValue.v>>

\* C3 amended: handleValue draws exactly when its input is a tuple or list of two
\* or more elements whose first two are numbers, and then returns the draw
\* between element 0 and element 1, whatever follows them; a tuple or list of
\* fewer than two elements raises IndexError; a number is returned unchanged
\* with no draw.
C3_DrawsForAnySequence ==
    Handled =>
      /\ IsNumber(argValue) => retExc = "none" /\ draws = <<>> /\ retVal = <<argValue.v>>
      /\ IsSeqSpec(argValue) /\ Len(argValue.e) < 2 => retExc = "IndexError" /\ draws = <<>>
      /\ IsSeqSpec(argValue) /\ Len(argValue.e) >= 2
           /\ IsNumber(argValue.e[1]) /\ IsNumber(argValue.e[2])
         => /\ retExc = "none"
            /\ Len(draws) = 1
            /\ retVal = <<argValue.e[1].v
                          + ((argValue.e[2].v - argValue.e[1].v) * draws[1]) \div RandRes>>
      /\ Len(draws) = 1
         => IsSeqSpec(argValue) /\ Len(argValue.e) >= 2
              /\ IsNumber(argValue.e[1]) /\ IsNumber(argValue.e[2])

\* a triple of numbers was resolved to a draw that differs from its first element
C3_Witness ==
    /\ Handled /\ IsScalarTriple(argValue) /\ Len(draws) = 1
    /\ retVal # <<argValue.e[1].v>>

\* ------------------------------------------------------------------ C5
\* C5: for a range (lo, hi) with lo <= hi, the value handleValue returns lies in
\* [lo, hi], and so does the value updateShader writes to a float attribute
\* whose spec is that range.
C5_DrawWithinRange ==
    /\ Handled /\ IsRange(argValue) /\ argValue.e[1].v <= argValue.e[2].v
       => retExc = "none" /\ Len(retVal) = 1 /\ InRange(retVal[1], argValue)
    /\ Updated =>
         \A i \in Items :
           LET spec == argAttrs[i][2]
               w == WritesTo(hostLog, argAttrs[i][1])
           IN  getAttrType(argAttrs[i][1]) = "float" /\ IsRange(spec)
                 /\ spec.e[1].v <= spec.e[2].v /\ Reached(i)
               => Len(w) = 1 /\ Len(w[1].val) = 1 /\ InRange(w[1].val[1], spec)

\* a float attribute was written with a draw strictly inside its range
C5_Witness ==
    /\ Updated /\ retExc = "none"
    /\ \E i \in Items :
         /\ argAttrs[i] = <<"base", FullRange>>
         /\ WritesTo(hostLog, "base")[1].val[1] > 0
         /\ WritesTo(hostLog, "base")[1].val[1] < Top

\* ------------------------------------------------------------------ C6
\* C6: a float3 attribute whose spec is a triple of numbers (a, b, c) is written
\* once when the loop reaches it, with exactly (a, b, c) in that order; a mapping
\* of such keys and unsupported keys alone takes no draw.
C6_TripleWrittenAsGiven ==
    Updated =>
      /\ \A i \in Items :
           LET spec == argAttrs[i][2]
               w == WritesTo(hostLog, argAttrs[i][1])
           IN  getAttrType(argAttrs[i][1]) = "float3" /\ IsScalarTriple(spec) /\ Reached(i)
               => Len(w) = 1 /\ w[1].val = <<spec.e[1].v, spec.e[2].v, spec.e[3].v>>
      /\ (\A i \in Items : \/ ~Supported(argAttrs[i][1])
                            \/ /\ getAttrType(argAttrs[i][1]) = "float3"
                               /\ IsScalarTriple(argAttrs[i][2]))
         => draws = <<>> /\ retExc = "none"

\* a triple of three different numbers was written
C6_Witness ==
    /\ Updated /\ retExc = "none" /\ draws = <<>>
    /\ \E i \in Items :
         /\ argAttrs[i] = <<"baseColor", Tup(<<Num(0), Num(Unit), Num(Top)>>)>>
         /\ WritesTo(hostLog, "baseColor")[1].val = <<0, Unit, Top>>

\* ------------------------------------------------------------------ C7
Permuted(d, p) == [i \in 1..Len(d) |-> d[p[i]]]

\* the call just made gives the same attribute values and the same set of
\* warnings when the keys of its mapping are processed in any other order
OrderIrrelevant ==
    \A p \in Permutations(1..Len(argAttrs')) :
      LET r == UpdateIn(CallState, argName', Permuted(argAttrs', p), draws')
      IN  r.attrVal = attrVal' /\ Range(r.warn) = Range(warnings')

\* C7 as stated: for a mapping whose specs are all literals, every order of the
\* keys gives the same final attribute values and the same set of warnings.
C7_AsStated ==
    [][op' = "updateShader" /\ (\A i \in 1..Len(argAttrs') : IsLiteral(argAttrs'[i][2]))
       => OrderIrrelevant]_vars

\* C7 amended: for a mapping in which every float key carries a number and every
\* float3 key a triple of numbers (unsupported keys carry any literal), every
\* order of the keys gives the same final attribute values and the same set of
\* warnings.
C7_OrderIrrelevant ==
    [][op' = "updateShader" /\ (\A i \in 1..Len(argAttrs') : ShapedLiteral(argAttrs'[i]))
       => OrderIrrelevant]_vars

\* a literal mapping of a float, a float3 and an unsupported key was applied
C7_Witness ==
    /\ Updated /\ Len(argAttrs) = 3 /\ retExc = "none"
    /\ \A i \in Items : ShapedLiteral(argAttrs[i])
    /\ Len(Writes(hostLog)) = 2 /\ Len(warnings) = 1
    /\ getAttrType(argAttrs[1][1]) = "bool"

\* ------------------------------------------------------------------ C8
\* C8: updateShader with an empty mapping queries no type, writes nothing, logs
\* no warning, leaves every attribute as it was and returns without error.
C8_EmptyMappingNoEffect ==
    [][op' = "updateShader" /\ argAttrs' = <<>>
       => /\ hostLog' = <<>>
          /\ warnings' = <<>>
          /\ draws' = <<>>
          /\ retExc' = "none"
          /\ attrVal' = attrVal
          /\ nodeType' = nodeType /\ conn' = conn /\ members' = members]_vars

\* updateShader returned from a call with an empty mapping
C8_Witness == Updated /\ argAttrs = <<>> /\ retExc = "none" /\ argName = M1

\* ------------------------------------------------------------------ C4
\* C4: createOrUpdateShader on a name that exists creates no node, applies the
\* assignments to that shader through updateShader and returns normally, with
\* the shader's name and no shading group.
C4_UpdatesExistingShader ==
    [][op' = "createOrUpdateShader" /\ argName' \in DOMAIN nodeType
         /\ (\A i \in 1..Len(argAttrs') : Shaped(argAttrs'[i]))
       => /\ retExc' = "none"
          /\ nodeType' = nodeType
          /\ Len(retVal') = 2 /\ retVal'[1] = argName' /\ retVal'[2] = None
          /\ attrVal' = UpdateIn(CallState, argName', argAttrs', draws').attrVal]_vars

\* ------------------------------------------------------------------ C9
ShadingGroupsOf(cn, nt, shader) ==
    {g \in Range(cn[shader].outColor) : nt[g] = "shadingEngine"}

\* C9: after addToOrCreateShader(shaderName, nodes, attrs), from any scene, a
\* shader of that name exists, the nodes are members of its shading group, the
\* assignments were applied, and a shader that was absent was created once.
C9_NodesAssigned ==
    [][op' = "addToOrCreateShader" /\ (\A i \in 1..Len(argAttrs') : Shaped(argAttrs'[i]))
       => /\ retExc' = "none"
          /\ argName' \in DOMAIN attrVal'
          /\ \E g \in ShadingGroupsOf(conn', nodeType', argName') :
               Range(argNodes') \subseteq members'[g]
          /\ \A i \in 1..Len(argAttrs') :
               Supported(argAttrs'[i][1]) => Len(WritesTo(hostLog', argAttrs'[i][1])) >= 1
          /\ argName' \notin DOMAIN nodeType => Len(Created(hostLog')) = 1]_vars

\* ------------------------------------------------------------------ C10
\* C10: getShadingGroup(shader) returns the shader's shading group when one is
\* connected and None, without raising, when none is; addToShader on a shader
\* without a shading group returns False and changes no set membership.
C10_NoGroupGivesNone ==
    [][/\ op' = "getShadingGroup" /\ argName' \in DOMAIN attrVal
          => /\ retExc' = "none"
             /\ IF ShadingGroupsOf(conn, nodeType, argName') # {}
                THEN retVal' \in ShadingGroupsOf(conn, nodeType, argName')
                ELSE retVal' = None
       /\ op' = "addToShader" /\ argName' \in DOMAIN attrVal
            /\ ShadingGroupsOf(conn, nodeType, argName') = {}
          => retExc' = "none" /\ retVal' = <<FALSE>> /\ members' = members]_vars

====
